---- MODULE Spec2Model ----
(***************************************************************************)
(* A model of main.py: the validated fields (Name, Phone, Birthday), the   *)
(* Record and AddressBook classes, the command handlers and the command    *)
(* loop of main().                                                         *)
(*                                                                         *)
(* A Python str is a TLA+ string; Chars gives the characters of every      *)
(* input token, so that the validators work on characters as the code      *)
(* does.  A printed message is the sequence of the pieces an f-string      *)
(* concatenates.  The dict of the AddressBook is the sequence of its       *)
(* records in insertion order.  None is the empty tuple.                   *)
(***************************************************************************)
EXTENDS Integers, Sequences, FiniteSets, TLC

VARIABLES address_book, user_input, output, pc

vars == <<address_book, user_input, output, pc>>

\* The model stops accepting "add" when the book holds this many phones.
MaxPhones == 2

None == <<>>

(***************************************************************************)
(* Characters and input tokens                                             *)
(***************************************************************************)
AsciiDigits == <<"0", "1", "2", "3", "4", "5", "6", "7", "8", "9">>

UpperLetters == <<"A", "B", "C", "D", "E", "F", "G", "H", "I", "J", "K", "L", "M",
                  "N", "O", "P", "Q", "R", "S", "T", "U", "V", "W", "X", "Y", "Z">>
LowerLetters == <<"a", "b", "c", "d", "e", "f", "g", "h", "i", "j", "k", "l", "m",
                  "n", "o", "p", "q", "r", "s", "t", "u", "v", "w", "x", "y", "z">>

\* Characters for which str.isdigit() is True without being an ASCII digit
\* (SUPERSCRIPT TWO, U+00B2: isdigit() True, isdecimal() False, int() fails).
SupTwo == "U+00B2"
UnicodeDigits == {SupTwo}

\* The tokens of the input lines: names, phones (two of 10 ASCII digits, one
\* of 5, one of 10 superscript twos) and birthdays (month 01 and month 13).
NameTokens == {"Mia", "Bob"}
AsciiPhoneTokens == {"1234567890", "0987654321", "12345"}
SupPhone == "<U+00B2 x10>"
PhoneTokens == AsciiPhoneTokens \cup {SupPhone}
BirthdayTokens == {"2000-01-15", "2000-13-01"}

Chars ==
     "Mia"          :> <<"M", "i", "a">>
  @@ "Bob"          :> <<"B", "o", "b">>
  @@ "1234567890"   :> <<"1", "2", "3", "4", "5", "6", "7", "8", "9", "0">>
  @@ "0987654321"   :> <<"0", "9", "8", "7", "6", "5", "4", "3", "2", "1">>
  @@ SupPhone       :> <<SupTwo, SupTwo, SupTwo, SupTwo, SupTwo,
                         SupTwo, SupTwo, SupTwo, SupTwo, SupTwo>>
  @@ "12345"        :> <<"1", "2", "3", "4", "5">>
  @@ "2000-01-15"   :> <<"2", "0", "0", "0", "-", "0", "1", "-", "1", "5">>
  @@ "2000-13-01"   :> <<"2", "0", "0", "0", "-", "1", "3", "-", "0", "1">>
  @@ "hello"        :> <<"h", "e", "l", "l", "o">>
  @@ "add"          :> <<"a", "d", "d">>
  @@ "change"       :> <<"c", "h", "a", "n", "g", "e">>
  @@ "phone"        :> <<"p", "h", "o", "n", "e">>
  @@ "all"          :> <<"a", "l", "l">>
  @@ "remove_phone" :> <<"r", "e", "m", "o", "v", "e", "_", "p", "h", "o", "n", "e">>
  @@ "find_phone"   :> <<"f", "i", "n", "d", "_", "p", "h", "o", "n", "e">>
  @@ "add_birthday" :> <<"a", "d", "d", "_", "b", "i", "r", "t", "h", "d", "a", "y">>
  @@ "close"        :> <<"c", "l", "o", "s", "e">>
  @@ "exit"         :> <<"e", "x", "i", "t">>
  @@ "Close"        :> <<"C", "l", "o", "s", "e">>
  @@ "EXIT"         :> <<"E", "X", "I", "T">>
  @@ "foo"          :> <<"f", "o", "o">>

\* The str whose characters are cs.
StrOf(cs) == CHOOSE t \in DOMAIN Chars : Chars[t] = cs

InSeq(x, s) == \E i \in 1..Len(s) : s[i] = x

IndexOf(x, s) == CHOOSE i \in 1..Len(s) : s[i] = x

\* str.isdigit(): at least one character and every character is a digit.
isdigit(cs) ==
  /\ cs # <<>>
  /\ \A i \in 1..Len(cs) : InSeq(cs[i], AsciiDigits) \/ cs[i] \in UnicodeDigits

\* str.lower()
LowerChar(c) == IF InSeq(c, UpperLetters) THEN LowerLetters[IndexOf(c, UpperLetters)] ELSE c

lower(cs) == [i \in 1..Len(cs) |-> LowerChar(cs[i])]

\* str.split(sep)
RECURSIVE SplitAcc(_, _, _, _)
SplitAcc(cs, sep, cur, acc) ==
  IF cs = <<>> THEN Append(acc, cur)
  ELSE IF Head(cs) = sep THEN SplitAcc(Tail(cs), sep, <<>>, Append(acc, cur))
  ELSE SplitAcc(Tail(cs), sep, Append(cur, Head(cs)), acc)

split(cs, sep) == SplitAcc(cs, sep, <<>>, <<>>)

\* int(s) succeeds (over the characters of Chars: no sign, space or underscore).
IntOk(cs) == cs # <<>> /\ \A i \in 1..Len(cs) : InSeq(cs[i], AsciiDigits)

RECURSIVE IntVal(_)
IntVal(cs) ==
  IF cs = <<>> THEN 0
  ELSE 10 * IntVal(SubSeq(cs, 1, Len(cs) - 1)) + (IndexOf(cs[Len(cs)], AsciiDigits) - 1)

(***************************************************************************)
(* Fields.  A constructor yields [exc, value, msg]: exc is "none" or the   *)
(* class of the exception raised.                                          *)
(***************************************************************************)
Ok(v) == [exc |-> "none", value |-> v, msg |-> <<>>]

Raise(e, m) == [exc |-> e, value |-> None, msg |-> m]

Name(value) ==
  IF Chars[value] = <<>> THEN Raise("ValueError", <<"Name cannot be empty.">>)
  ELSE Ok(value)

Phone(value) ==
  IF ~isdigit(Chars[value]) \/ Len(Chars[value]) # 10
  THEN Raise("ValueError", <<"Phone number must be 10 digits.">>)
  ELSE Ok(value)

\* An optional str is None or <<str>>.  A Birthday object is <<value>>, its
\* value an optional str: Birthday("") holds the value None.
Birthday(value) ==
  IF Chars[value] = <<>> THEN Ok(<<None>>)
  ELSE LET parts == split(Chars[value], "-") IN
       IF /\ Len(parts) = 3
          /\ \A i \in 1..3 : IntOk(parts[i])
          /\ 1 <= IntVal(parts[2]) /\ IntVal(parts[2]) <= 12
          /\ 1 <= IntVal(parts[3]) /\ IntVal(parts[3]) <= 31
       THEN Ok(<< <<value>> >>)
       ELSE Raise("ValueError", <<"Invalid date format. Use 'YYYY-MM-DD'">>)

(***************************************************************************)
(* Record: [name, phones, birthday]; phones is the list of the values of   *)
(* its Phone objects, birthday is None or a Birthday object.               *)
(***************************************************************************)
Record(name, birthday) == [name |-> name, phones |-> <<>>, birthday |-> birthday]

\* add_phone with insert(0, phone) for append(phone).
add_phone_AtFront(rec, phone) == [rec EXCEPT !.phones = <<phone>> \o @]

add_phone(rec, phone) == [rec EXCEPT !.phones = Append(@, phone)]

\* The position of the Phone object find_phone returns, 0 for None.
find_phone(rec, phone_value) ==
  IF InSeq(phone_value, rec.phones) THEN
    CHOOSE i \in 1..Len(rec.phones) :
      /\ rec.phones[i] = phone_value
      /\ \A j \in 1..(i - 1) : rec.phones[j] # phone_value
  ELSE 0

\* list.remove(obj) for the object at position i
RemoveAt(s, i) == SubSeq(s, 1, i - 1) \o SubSeq(s, i + 1, Len(s))

\* remove_phone and edit_phone yield [exc, rec, msg]: rec is the record as
\* the call leaves it, also when it raises.
remove_phone(rec, phone_value) ==
  LET phone == find_phone(rec, phone_value) IN
  IF phone # 0
  THEN [exc |-> "none", rec |-> [rec EXCEPT !.phones = RemoveAt(@, phone)], msg |-> <<>>]
  ELSE [exc |-> "ValueError", rec |-> rec, msg |-> <<"Phone ", phone_value, " not found.">>]

\* edit_phone without the removal of the old phone.
edit_phone_KeepsOld(rec, old_value, new_value) ==
  LET old_phone == find_phone(rec, old_value) IN
  IF old_phone # 0 THEN
    LET new == Phone(new_value)
    IN IF new.exc # "none"
       THEN [exc |-> new.exc, rec |-> rec, msg |-> new.msg]
       ELSE [exc |-> "none", rec |-> [rec EXCEPT !.phones = Append(@, new.value)], msg |-> <<>>]
  ELSE [exc |-> "ValueError", rec |-> rec, msg |-> <<"Phone ", old_value, " not found.">>]

edit_phone(rec, old_value, new_value) ==
  LET old_phone == find_phone(rec, old_value) IN
  IF old_phone # 0 THEN
    LET removed == [rec EXCEPT !.phones = RemoveAt(@, old_phone)]
        new     == Phone(new_value)
    IN IF new.exc # "none"
       THEN [exc |-> new.exc, rec |-> removed, msg |-> new.msg]
       ELSE [exc |-> "none", rec |-> add_phone(removed, new.value), msg |-> <<>>]
  ELSE [exc |-> "ValueError", rec |-> rec, msg |-> <<"Phone ", old_value, " not found.">>]

\* ", ".join(pieces)
RECURSIVE Join(_, _)
Join(items, sep) ==
  IF items = <<>> THEN <<>>
  ELSE IF Len(items) = 1 THEN <<items[1]>>
  ELSE <<items[1], sep>> \o Join(Tail(items), sep)

RecordStr(rec) ==
  LET phones   == Join(rec.phones, ", ")
      birthday == IF rec.birthday # None /\ rec.birthday[1] # None
                  THEN <<" Birthday: ", rec.birthday[1][1]>> ELSE <<>>
  IN <<rec.name, ": ">> \o phones \o birthday

(***************************************************************************)
(* AddressBook                                                             *)
(***************************************************************************)
\* The position of the record under key name, 0 when find() returns None.
find(book, name) ==
  IF \E i \in 1..Len(book) : book[i].name = name
  THEN CHOOSE i \in 1..Len(book) : book[i].name = name
  ELSE 0

\* self.data[key] = record: a new key goes last, an existing key keeps its place.
add_record(book, rec) ==
  IF find(book, rec.name) # 0 THEN [book EXCEPT ![find(book, rec.name)] = rec]
  ELSE Append(book, rec)

RECURSIVE JoinLines(_)
JoinLines(book) ==
  IF book = <<>> THEN <<>>
  ELSE IF Len(book) = 1 THEN RecordStr(book[1])
  ELSE RecordStr(book[1]) \o <<"\n">> \o JoinLines(Tail(book))

AddressBookStr(book) == JoinLines(book)

(***************************************************************************)
(* Command handlers.  A handler yields [exc, book, msg]: the exception it  *)
(* raises ("none": it returns msg) and the address book as it leaves it.   *)
(***************************************************************************)
Result(e, book, m) == [exc |-> e, book |-> book, msg |-> m]

add_contact(args, book) ==
  IF Len(args) < 2 \/ Len(args) > 3
  THEN Result("ValueError", book, <<"Invalid input. Expected: add <name> <phone> [<birthday>]">>)
  ELSE
    LET name     == args[1]
        phone    == args[2]
        birthday == IF Len(args) = 3 THEN <<args[3]>> ELSE None
        record   == find(book, name)
        p        == Phone(phone)
    IN IF record # 0 THEN
         IF p.exc # "none" THEN Result(p.exc, book, p.msg)
         ELSE Result("none", [book EXCEPT ![record] = add_phone(@, p.value)],
                     <<"Contact ", name, " added/updated.">>)
       ELSE
         LET n == Name(name)
             b == IF birthday # None /\ Chars[birthday[1]] # <<>>
                  THEN Birthday(birthday[1]) ELSE Ok(None)
         IN IF n.exc # "none" THEN Result(n.exc, book, n.msg)
            ELSE IF b.exc # "none" THEN Result(b.exc, book, b.msg)
            ELSE IF p.exc # "none" THEN Result(p.exc, book, p.msg)
            ELSE Result("none", add_record(book, add_phone(Record(n.value, b.value), p.value)),
                        <<"Contact ", name, " added/updated.">>)

change_contact(args, book) ==
  IF Len(args) # 3
  THEN Result("ValueError", book, <<"Invalid input. Expected: change <name> <old_phone> <new_phone>">>)
  ELSE
    LET name   == args[1]
        record == find(book, name)
    IN IF record = 0 THEN Result("KeyError", book, <<"Contact ", name, " not found.">>)
       ELSE LET e == edit_phone(book[record], args[2], args[3]) IN
            IF e.exc # "none" THEN Result(e.exc, [book EXCEPT ![record] = e.rec], e.msg)
            ELSE Result("none", [book EXCEPT ![record] = e.rec], <<"Contact ", name, " updated.">>)

show_phone(args, book) ==
  IF Len(args) # 1
  THEN Result("ValueError", book, <<"Invalid input. Expected: phone <name>">>)
  ELSE
    LET name   == args[1]
        record == find(book, name)
    IN IF record = 0 THEN Result("KeyError", book, <<"Contact ", name, " not found.">>)
       ELSE Result("none", book, RecordStr(book[record]))

show_all(book) ==
  Result("none", book, IF book # <<>> THEN AddressBookStr(book) ELSE <<"No contacts found.">>)

\* add_birthday creating the record when the name is not in the book.
add_birthday_Upsert(args, book) ==
  IF Len(args) # 2
  THEN Result("ValueError", book, <<"Invalid input. Expected: add_birthday <name> <birthday>">>)
  ELSE
    LET name     == args[1]
        birthday == Birthday(args[2])
        record   == find(book, name)
    IN IF birthday.exc # "none"
       THEN Result("ValueError", book, <<"Invalid birthday format: ">> \o birthday.msg)
       ELSE IF record # 0
       THEN Result("none", [book EXCEPT ![record].birthday = birthday.value],
                   <<"Birthday for ", name, " added/updated.">>)
       ELSE Result("none", add_record(book, Record(name, birthday.value)),
                   <<"Contact ", name, " not found.">>)

add_birthday(args, book) ==
  IF Len(args) # 2
  THEN Result("ValueError", book, <<"Invalid input. Expected: add_birthday <name> <birthday>">>)
  ELSE
    LET name     == args[1]
        birthday == Birthday(args[2])
        record   == find(book, name)
    IN IF birthday.exc # "none"
       THEN Result("ValueError", book, <<"Invalid birthday format: ">> \o birthday.msg)
       ELSE IF record # 0
       THEN Result("none", [book EXCEPT ![record].birthday = birthday.value],
                   <<"Birthday for ", name, " added/updated.">>)
       ELSE Result("none", book, <<"Contact ", name, " not found.">>)

\* The remove_phone branch of main()
remove_phone_branch(args, book) ==
  IF Len(args) # 2
  THEN Result("ValueError", book, <<"Invalid input. Expected: remove_phone <name> <phone>">>)
  ELSE
    LET contact_name == args[1]
        phone_number == args[2]
        record       == find(book, contact_name)
    IN IF record # 0 THEN
         LET r == remove_phone(book[record], phone_number) IN
         IF r.exc # "none" THEN Result(r.exc, book, r.msg)
         ELSE Result("none", [book EXCEPT ![record] = r.rec],
                     <<"Phone number ", phone_number, " removed from contact ", contact_name, ".">>)
       ELSE Result("none", book, <<"Contact ", contact_name, " not found.">>)

\* The loop of the find_phone branch: the position of the first record,
\* from position i on, whose find_phone is not None; 0 when the loop ends.
\* The loop without its break: the last record that holds the value.
RECURSIVE LastOwner(_, _, _)
LastOwner(book, i, phone_number) ==
  IF i > Len(book) THEN 0
  ELSE IF LastOwner(book, i + 1, phone_number) # 0 THEN LastOwner(book, i + 1, phone_number)
  ELSE IF find_phone(book[i], phone_number) # 0 THEN i
  ELSE 0

RECURSIVE FirstOwner(_, _, _)
FirstOwner(book, i, phone_number) ==
  IF i > Len(book) THEN 0
  ELSE IF find_phone(book[i], phone_number) # 0 THEN i
  ELSE FirstOwner(book, i + 1, phone_number)

find_phone_branch(args, book) ==
  IF Len(args) # 1
  THEN Result("ValueError", book, <<"Invalid input. Expected: find_phone <phone>">>)
  ELSE
    LET phone_number == args[1]
        owner        == FirstOwner(book, 1, phone_number)
    IN IF owner # 0
       THEN Result("none", book, <<"Phone number ", phone_number, " belongs to contact ",
                                   book[owner].name, ".">>)
       ELSE Result("none", book, <<"Phone number ", phone_number, " not found.">>)

\* parse_input: user_input.split() is the sequence of tokens; parts[0] of
\* an empty list raises IndexError.
parse_input(parts) ==
  IF parts = <<>> THEN [exc |-> "IndexError", cmd |-> "", args |-> <<>>]
  ELSE [exc |-> "none", cmd |-> StrOf(lower(Chars[parts[1]])), args |-> Tail(parts)]

\* The except clauses of main(): what is printed for a handler's result.
Printed(r) ==
  IF r.exc = "none" THEN r.msg
  ELSE IF r.exc = "ValueError" THEN <<"ValueError: ">> \o r.msg
  ELSE IF r.exc = "KeyError" THEN <<"Error: ", "'">> \o r.msg \o <<"'">>
  ELSE <<"Error: ">> \o r.msg

(***************************************************************************)
(* Input lines (after split()), one iteration of the loop per action       *)
(***************************************************************************)
Lines ==
  {<<>>}
  \cup {<<c>> : c \in {"hello", "all", "close", "exit", "Close", "EXIT", "foo",
                       "add", "phone", "find_phone"}}
  \cup {<<"add", n, p>> : n \in NameTokens, p \in PhoneTokens}
  \cup {<<"add", n, p, b>> : n \in NameTokens, p \in PhoneTokens, b \in BirthdayTokens}
  \cup {<<"add", "Mia">>, <<"add", "Mia", "1234567890", "2000-01-15", "2000-01-15">>}
  \cup {<<"change", n, p, q>> : n \in NameTokens, p \in PhoneTokens, q \in PhoneTokens}
  \cup {<<"change", "Mia", "1234567890">>}
  \cup {<<"phone", n>> : n \in NameTokens}
  \cup {<<"remove_phone", n, p>> : n \in NameTokens, p \in PhoneTokens}
  \cup {<<"remove_phone", "Mia">>}
  \cup {<<"find_phone", p>> : p \in PhoneTokens}
  \cup {<<"add_birthday", n, b>> : n \in NameTokens, b \in BirthdayTokens}
  \cup {<<"add_birthday", "Mia">>}

\* parse_input of every input line, and the lines of each command word.
Parsed == [line \in Lines |-> parse_input(line)]

KnownCommands == {"close", "exit", "hello", "add", "change", "phone", "all",
                  "remove_phone", "find_phone", "add_birthday"}

InputsOf ==
  [c \in {Parsed[l].cmd : l \in Lines} |->
     {l \in Lines : Parsed[l].exc = "none" /\ Parsed[l].cmd = c}]

RECURSIVE TotalPhones(_)
TotalPhones(book) ==
  IF book = <<>> THEN 0 ELSE Len(book[1].phones) + TotalPhones(Tail(book))

Init ==
  /\ address_book = <<>>
  /\ user_input = <<>>
  /\ output = <<>>
  /\ pc = "running"

\* One iteration whose command is handled inside the try statement.
Handled(line, r) ==
  /\ pc = "running"
  /\ TotalPhones(r.book) <= MaxPhones
  /\ user_input' = line
  /\ address_book' = r.book
  /\ output' = Printed(r)
  /\ pc' = "running"

\* input() returns an empty or whitespace-only line: parts[0] raises
\* IndexError outside the try statement and the process ends with a traceback.
EmptyLine ==
  \E line \in {l \in Lines : Parsed[l].exc = "IndexError"} :
    /\ pc = "running"
    /\ user_input' = line
    /\ output' = <<"Traceback (most recent call last): ... IndexError: list index out of range">>
    /\ pc' = "crashed"
    /\ UNCHANGED address_book

CloseCmd ==
  \E line \in InputsOf["close"] \cup InputsOf["exit"] :
    /\ pc = "running"
    /\ user_input' = line
    /\ output' = <<"Good bye!">>
    /\ pc' = "ended"
    /\ UNCHANGED address_book

HelloCmd ==
  \E line \in InputsOf["hello"] :
    Handled(line, Result("none", address_book, <<"How can I help you?">>))

AddCmd ==
  \E line \in InputsOf["add"] :
    Handled(line, add_contact(Parsed[line].args, address_book))

ChangeCmd ==
  \E line \in InputsOf["change"] :
    Handled(line, change_contact(Parsed[line].args, address_book))

PhoneCmd ==
  \E line \in InputsOf["phone"] :
    Handled(line, show_phone(Parsed[line].args, address_book))

AllCmd ==
  \E line \in InputsOf["all"] :
    Handled(line, show_all(address_book))

RemovePhoneCmd ==
  \E line \in InputsOf["remove_phone"] :
    Handled(line, remove_phone_branch(Parsed[line].args, address_book))

FindPhoneCmd ==
  \E line \in InputsOf["find_phone"] :
    Handled(line, find_phone_branch(Parsed[line].args, address_book))

AddBirthdayCmd ==
  \E line \in InputsOf["add_birthday"] :
    Handled(line, add_birthday(Parsed[line].args, address_book))

InvalidCmd ==
  \E line \in {l \in Lines : Parsed[l].exc = "none" /\ Parsed[l].cmd \notin KnownCommands} :
    Handled(line, Result("none", address_book, <<"Invalid command. Type 'hello' for assistance.">>))

Next ==
  \/ EmptyLine
  \/ CloseCmd
  \/ HelloCmd
  \/ AddCmd
  \/ ChangeCmd
  \/ PhoneCmd
  \/ AllCmd
  \/ RemovePhoneCmd
  \/ FindPhoneCmd
  \/ AddBirthdayCmd
  \/ InvalidCmd

Spec == Init /\ [][Next]_vars

(***************************************************************************)
(* Vocabulary of the properties: the command the last iteration ran, read  *)
(* after the step (primed) against the address book before it.             *)
(***************************************************************************)
Ran(c, n) ==
  /\ Parsed[user_input'].exc = "none"
  /\ Parsed[user_input'].cmd = c
  /\ Len(Parsed[user_input'].args) = n

Arg(i) == Parsed[user_input'].args[i]

\* The record stored under a name that is in the book.
RecordOf(book, name) == book[find(book, name)]

Count(s, x) == Cardinality({i \in 1..Len(s) : s[i] = x})

ChangeSucceeded == Ran("change", 3) /\ output' = <<"Contact ", Arg(1), " updated.">>

AddSucceeded ==
  /\ Ran("add", 2) \/ Ran("add", 3)
  /\ output' = <<"Contact ", Arg(1), " added/updated.">>

RemoveSucceeded ==
  /\ Ran("remove_phone", 2)
  /\ output' = <<"Phone number ", Arg(2), " removed from contact ", Arg(1), ".">>

\* What the find_phone command answers for a value in a given address book.
Lookup(book, value) == find_phone_branch(<<value>>, book).msg

Belongs(value, name) == <<"Phone number ", value, " belongs to contact ", name, ".">>

Absent(value) == <<"Phone number ", value, " not found.">>

\* The state predicates read the command of the last iteration unprimed.
Last(c, n) ==
  /\ Parsed[user_input].exc = "none"
  /\ Parsed[user_input].cmd = c
  /\ Len(Parsed[user_input].args) = n

LastArg(i) == Parsed[user_input].args[i]

(***************************************************************************)
(* C1                                                                      *)
(***************************************************************************)
TenDecimalDigits(value) ==
  /\ Len(Chars[value]) = 10
  /\ \A k \in 1..Len(Chars[value]) : InSeq(Chars[value][k], AsciiDigits)

\* C1: in every reachable state every phone stored in every record has a
\* value of exactly 10 decimal digits.
C1_StoredPhonesAreTenDecimalDigits ==
  \A i \in 1..Len(address_book) :
    \A j \in 1..Len(address_book[i].phones) : TenDecimalDigits(address_book[i].phones[j])

(***************************************************************************)
(* C2                                                                      *)
(***************************************************************************)
\* C2 as stated: after every successful edit_phone(old, new), duplicates of
\* old and new = old included, find_phone(new) is found and find_phone(old)
\* is None.
C2_EditThenFind_AsStated ==
  [][ChangeSucceeded =>
       LET rec == RecordOf(address_book', Arg(1)) IN
       /\ find_phone(rec, Arg(3)) # 0
       /\ find_phone(rec, Arg(2)) = 0]_vars

\* C2 as amended: after a successful edit_phone(old, new), find_phone(new)
\* returns a phone of value new, which is the edited phone (the last of the
\* list) when the record held no other phone of value new; find_phone(old)
\* is None exactly when new differs from old and the record held old once.
C2_EditThenFind ==
  [][ChangeSucceeded =>
       LET before == RecordOf(address_book, Arg(1))
           rec    == RecordOf(address_book', Arg(1))
           found  == find_phone(rec, Arg(3))
       IN /\ found # 0
          /\ rec.phones[found] = Arg(3)
          /\ rec.phones[Len(rec.phones)] = Arg(3)
          /\ Count(before.phones, Arg(3)) = (IF Arg(2) = Arg(3) THEN 1 ELSE 0)
               => found = Len(rec.phones)
          /\ find_phone(rec, Arg(2)) = 0
               <=> (Arg(2) # Arg(3) /\ Count(before.phones, Arg(2)) = 1)]_vars

\* A change of a phone the record held once, to a different value, succeeded
\* and another phone stands before the edited one.
C2_Witness ==
  /\ Last("change", 3)
  /\ output = <<"Contact ", LastArg(1), " updated.">>
  /\ LastArg(2) # LastArg(3)
  /\ LET rec == RecordOf(address_book, LastArg(1)) IN
     /\ Len(rec.phones) = 2
     /\ find_phone(rec, LastArg(2)) = 0
     /\ find_phone(rec, LastArg(3)) = 2

(***************************************************************************)
(* C3                                                                      *)
(***************************************************************************)
\* C3: a successful edit_phone(old, new) replaces in place: the new phone is
\* at the index of the first phone equal to old, the length is unchanged and
\* every other phone keeps its index.
C3_EditInPlace ==
  [][ChangeSucceeded =>
       LET before == RecordOf(address_book, Arg(1))
           rec    == RecordOf(address_book', Arg(1))
       IN rec.phones = [before.phones EXCEPT ![find_phone(before, Arg(2))] = Arg(3)]]_vars

(***************************************************************************)
(* C4                                                                      *)
(***************************************************************************)
NotFound(name) == <<"Contact ", name, " not found.">>

\* C4 as stated: add_birthday for a name not in the book, whatever the
\* birthday argument, returns "not found" without raising and the book has
\* no record for the name afterwards.
C4_AddBirthdayUnknown_AsStated ==
  [][(Ran("add_birthday", 2) /\ find(address_book, Arg(1)) = 0) =>
       /\ output' = NotFound(Arg(1))
       /\ find(address_book', Arg(1)) = 0]_vars

\* C4 as amended: add_birthday for a name not in the book returns "not
\* found" without raising when the birthday argument is valid, and raises
\* ValueError (the birthday is validated before the lookup) when it is not;
\* in both cases the book is left as it was, without a record for the name.
C4_AddBirthdayUnknown ==
  [][(Ran("add_birthday", 2) /\ find(address_book, Arg(1)) = 0) =>
       /\ Birthday(Arg(2)).exc = "none" => output' = NotFound(Arg(1))
       /\ Birthday(Arg(2)).exc # "none" =>
            output' = <<"ValueError: ", "Invalid birthday format: ",
                        "Invalid date format. Use 'YYYY-MM-DD'">>
       /\ find(address_book', Arg(1)) = 0
       /\ address_book' = address_book]_vars

\* add_birthday with a valid birthday answered "not found" for a name that
\* is not in a book that holds another contact.
C4_Witness ==
  /\ Last("add_birthday", 2)
  /\ Birthday(LastArg(2)).exc = "none"
  /\ output = NotFound(LastArg(1))
  /\ find(address_book, LastArg(1)) = 0
  /\ Len(address_book) = 1

(***************************************************************************)
(* C5                                                                      *)
(***************************************************************************)
\* C5: the loop never ends because of a failure: it has ended only when the
\* command word of the last line is close or exit, whatever the line was.
C5_LoopEndsOnlyOnCloseOrExit ==
  pc # "running" =>
    /\ Parsed[user_input].exc = "none"
    /\ Parsed[user_input].cmd \in {"close", "exit"}

(***************************************************************************)
(* C6                                                                      *)
(***************************************************************************)
Holds(book, i, value) == InSeq(value, book[i].phones)

\* The first record in insertion order whose phone list contains the value.
AnswersFirstHolder ==
  (Ran("find_phone", 1) /\ pc' = "running") =>
    /\ address_book' = address_book
    /\ \A i \in 1..Len(address_book) :
         (Holds(address_book, i, Arg(1)) /\ \A j \in 1..(i - 1) : ~Holds(address_book, j, Arg(1)))
           => output' = Belongs(Arg(1), address_book[i].name)
    /\ (\A i \in 1..Len(address_book) : ~Holds(address_book, i, Arg(1)))
         <=> output' = Absent(Arg(1))

\* C6 as stated, its last sentence: after a phone has been added to a
\* contact the lookup returns that contact, and after that phone is removed
\* from the contact the lookup returns absent.
C6_LookupAfterAddAndRemove_AsStated ==
  [][/\ AddSucceeded => Lookup(address_book', Arg(2)) = Belongs(Arg(2), Arg(1))
     /\ RemoveSucceeded => Lookup(address_book', Arg(2)) = Absent(Arg(2))]_vars

\* C6 as amended: the lookup returns the first record, in insertion order,
\* whose phone list contains the value, and absent exactly when no record
\* holds it; after a phone has been added to a contact the lookup returns
\* that contact unless a record inserted earlier holds the value (then it
\* returns that record), and after the phone is removed from the contact the
\* lookup returns absent unless a record (that contact, holding the value
\* twice, or another) still holds it.
C6_Lookup ==
  [][/\ AnswersFirstHolder
     /\ AddSucceeded =>
          LET me == find(address_book', Arg(1)) IN
          /\ (\A j \in 1..(me - 1) : ~Holds(address_book, j, Arg(2)))
               => Lookup(address_book', Arg(2)) = Belongs(Arg(2), Arg(1))
          /\ \A j \in 1..(me - 1) :
               (Holds(address_book, j, Arg(2)) /\ \A k \in 1..(j - 1) : ~Holds(address_book, k, Arg(2)))
                 => Lookup(address_book', Arg(2)) = Belongs(Arg(2), address_book[j].name)
     /\ RemoveSucceeded =>
          LET me == find(address_book, Arg(1)) IN
          (Lookup(address_book', Arg(2)) = Absent(Arg(2)))
            <=> /\ Count(address_book[me].phones, Arg(2)) = 1
                /\ \A j \in 1..Len(address_book) : j # me => ~Holds(address_book, j, Arg(2))]_vars

\* The lookup answered with the first of two contacts that both hold the value.
C6_Witness ==
  /\ Last("find_phone", 1)
  /\ Len(address_book) = 2
  /\ Holds(address_book, 1, LastArg(1))
  /\ Holds(address_book, 2, LastArg(1))
  /\ output = Belongs(LastArg(1), address_book[1].name)

(***************************************************************************)
(* C7                                                                      *)
(***************************************************************************)
\* C7: an add command (two or three arguments, whatever the third) whose name
\* is already in the book and whose phone validates succeeds and appends the
\* phone at the end of that record's phones; its earlier phones, name and
\* birthday and every other record are unchanged, and the book holds exactly
\* one record under that name.
C7_AddToExisting ==
  [][(/\ Ran("add", 2) \/ Ran("add", 3)
      /\ find(address_book, Arg(1)) # 0
      /\ Phone(Arg(2)).exc = "none") =>
       LET i == find(address_book, Arg(1)) IN
       /\ output' = <<"Contact ", Arg(1), " added/updated.">>
       /\ Len(address_book') = Len(address_book)
       /\ \A j \in 1..Len(address_book) : j # i => address_book'[j] = address_book[j]
       /\ address_book'[i].name = address_book[i].name
       /\ address_book'[i].birthday = address_book[i].birthday
       /\ address_book'[i].phones = Append(address_book[i].phones, Arg(2))
       /\ Cardinality({j \in 1..Len(address_book') : address_book'[j].name = Arg(1)}) = 1]_vars

\* An add with a birthday argument succeeded for a contact that is second in
\* the book and now holds two different phones and no birthday.
C7_Witness ==
  /\ Last("add", 3)
  /\ output = <<"Contact ", LastArg(1), " added/updated.">>
  /\ Len(address_book) = 2
  /\ address_book[2].name = LastArg(1)
  /\ Len(address_book[2].phones) = 2
  /\ address_book[2].phones[2] = LastArg(2)
  /\ address_book[2].phones[1] # LastArg(2)
  /\ address_book[2].birthday = None
  /\ address_book[1].birthday # None

(***************************************************************************)
(* C8                                                                      *)
(***************************************************************************)
\* The rendering the claim describes.
Rendering(rec) ==
  <<rec.name, ": ">> \o Join(rec.phones, ", ")
    \o (IF rec.birthday # None /\ rec.birthday[1] # None
        THEN <<", Birthday: ", rec.birthday[1][1]>> ELSE <<>>)

\* C8: a record renders as "<name>: <phones joined by commas>" followed,
\* only when a birthday is present, by ", Birthday: <date>".
C8_RecordRendering ==
  (Last("phone", 1) /\ find(address_book, LastArg(1)) # 0) =>
    output = Rendering(RecordOf(address_book, LastArg(1)))

(***************************************************************************)
(* C10                                                                     *)
(***************************************************************************)
ReportedFailure(out) ==
  /\ out # <<>>
  /\ \/ out[1] \in {"ValueError: ", "Error: "}
     \/ \E n \in NameTokens : out = NotFound(n)

\* C10: a command that ends in a reported failure leaves the address book
\* exactly as it was before the command.
C10_FailureLeavesBookUnchanged ==
  [][(pc' = "running" /\ ReportedFailure(output')) => address_book' = address_book]_vars

====
